---- MODULE Spec2Model ----
(***************************************************************************)
(* Model of portscanner.c: the Dispatcher (main), the detached worker      *)
(* threads it creates (worker -> scan_port) and the counting semaphore     *)
(* that bounds the number of probes in flight.                             *)
(*                                                                         *)
(* Every thread advances one labelled step at a time; the label of the     *)
(* next step of main is pc, the label of the next step of the worker for   *)
(* port p is wpc[p].  Results of system calls (socket, connect, select,    *)
(* getsockopt, malloc, pthread_create, sem_open) are chosen by the         *)
(* environment among the outcomes the call can have.                       *)
(*                                                                         *)
(* Not modelled: sem_wait returning EINTR (the program installs no signal  *)
(* handler) and descriptors beyond FD_SETSIZE.                             *)
(***************************************************************************)
EXTENDS Integers, FiniteSets, Sequences, TLC

(* ---- bounds of the exploration ---------------------------------------- *)
MaxPorts == 2          \* longest port range explored
MaxConc  == 2          \* largest concurrency explored

(* ---- constants of the program ----------------------------------------- *)
PORT_MAX      == 65535          \* upper limit of the range check
SEM_VALUE_MAX == 2147483647     \* largest initial value sem_open accepts

VARIABLES
    start_port, end_port, timeout_sec, concurrency, verbose,  \* main's locals
    pc,           \* next step of main
    port,         \* loop variable of the dispatch loop
    i,            \* loop variable of the drain loop
    exit_status,  \* "running", "EXIT_SUCCESS" or "EXIT_FAILURE"
    sem_state,    \* "none", "open" or "closed": the named semaphore
    sem,          \* value of the semaphore
    task,         \* task[p]: "none", "allocated", "freed"
    launch,       \* launch[p]: "none", "ok", "malloc_failed", "create_failed"
    dposts,       \* dposts[p]: sem_post calls main made for port p
    wpc,          \* wpc[p]: next step of the worker of port p
    fd,           \* fd[p]: "none", "open", "closed": the probe's socket
    closes,       \* closes[p]: close() calls on the probe's socket
    path,         \* path[p]: the branch scan_port took
    result,       \* result[p]: the values scan_port returned for port p
    lines,        \* lines[p]: status lines scan_port printed on stdout
    perr,         \* perr[p]: perror messages printed for port p
    wposts,       \* wposts[p]: sem_post calls the worker of port p made
    \* two scanner processes on one host and the name /portscanner_sem:
    ns_name,      \* the semaphore object the name is bound to, or "none"
    ns_pc,        \* ns_pc[q]: next step of process q
    ns_handle,    \* ns_handle[q]: the object process q has open, or "none"
    ns_value,     \* ns_value[o]: value of semaphore object o
    ns_held,      \* ns_held[q]: permits process q took and has not returned
    ns_users,     \* ns_users[o]: processes that took from or posted to o
    ns_status     \* ns_status[q]: "running", "EXIT_SUCCESS", "EXIT_FAILURE"

cfg   == <<start_port, end_port, timeout_sec, concurrency, verbose>>
mvars == <<pc, port, i, exit_status, sem_state, sem, task, launch, dposts>>
pvars == <<fd, closes, path, result, lines, perr>>
ns    == <<ns_name, ns_pc, ns_handle, ns_value, ns_held, ns_users, ns_status>>
vars  == <<cfg, mvars, wpc, pvars, wposts, ns>>

(* The scanner processes of the two-process model; the semaphore object a  *)
(* process creates carries the name of the process, "stale" is an object   *)
(* left behind under the name by an earlier run.                           *)
Procs   == {"p1", "p2"}
Objects == Procs \cup {"stale"}

(* No second process: the state of the name space while one scan is        *)
(* explored.                                                               *)
NsIdle ==
    /\ ns_name = "none"
    /\ ns_pc = [q \in Procs |-> "exited"]
    /\ ns_handle = [q \in Procs |-> "none"]
    /\ ns_value = [o \in Objects |-> 0]
    /\ ns_held = [q \in Procs |-> 0]
    /\ ns_users = [o \in Objects |-> {}]
    /\ ns_status = [q \in Procs |-> "EXIT_SUCCESS"]

(* The ports the dispatch loop of lines 169-191 ranges over. *)
Range == start_port .. end_port

(* Variant of InvalidRange without the upper limit. *)
InvalidRange_NoUpper == start_port > end_port \/ start_port < 1

(* Line 155: the condition under which main rejects the port range. *)
InvalidRange == start_port > end_port \/ start_port < 1 \/ end_port > PORT_MAX

(* Line 162: sem_open takes an unsigned value.  A negative int converts to  *)
(* concurrency + 2^32, which is at least 2^31 and so above SEM_VALUE_MAX;   *)
(* a non-negative int keeps its value.  The converted value of a negative   *)
(* int is outside the integers the checker represents, so the conversion is *)
(* given by the two facts the program depends on.                           *)
SemValueAccepted == concurrency >= 0 /\ concurrency <= SEM_VALUE_MAX
SemInitValue == concurrency

(* ---- initial state: main after option parsing (lines 120-153) --------- *)
Init ==
    /\ start_port \in {0, 1, PORT_MAX}
    /\ end_port \in (1 .. MaxPorts) \cup {PORT_MAX, PORT_MAX + 1}
    /\ end_port - start_port < MaxPorts
    /\ timeout_sec \in {-1, 0, 1}
    /\ concurrency \in -1 .. MaxConc
    /\ verbose \in {0, 1}
    /\ pc = "check_range"
    /\ port = 0
    /\ i = 0
    /\ exit_status = "running"
    /\ sem_state = "none"
    /\ sem = 0
    /\ task   = [p \in Range |-> "none"]
    /\ launch = [p \in Range |-> "none"]
    /\ dposts = [p \in Range |-> 0]
    /\ wpc    = [p \in Range |-> "none"]
    /\ fd     = [p \in Range |-> "none"]
    /\ closes = [p \in Range |-> 0]
    /\ path   = [p \in Range |-> "none"]
    /\ result = [p \in Range |-> << >>]
    /\ lines  = [p \in Range |-> << >>]
    /\ perr   = [p \in Range |-> << >>]
    /\ wposts = [p \in Range |-> 0]
    /\ NsIdle

(* ======================= main ========================================== *)

(* Lines 155-158: reject an invalid port range with exit(EXIT_FAILURE). *)
CheckRange ==
    /\ pc = "check_range"
    /\ exit_status = "running"
    /\ IF InvalidRange
         THEN /\ pc' = "exited"
              /\ exit_status' = "EXIT_FAILURE"
         ELSE /\ pc' = "sem_open"
              /\ UNCHANGED exit_status
    /\ UNCHANGED <<cfg, ns, port, i, sem_state, sem, task, launch, dposts,
                   wpc, pvars, wposts>>

(* Lines 161-166: sem_unlink, then sem_open(O_CREAT | O_EXCL) with the     *)
(* initial value concurrency.  A value above SEM_VALUE_MAX always fails    *)
(* (EINVAL); any call may fail for a reason of the environment.            *)
SemOpen ==
    /\ pc = "sem_open"
    /\ exit_status = "running"
    /\ \E ok \in BOOLEAN :
         IF ok /\ SemValueAccepted
           THEN /\ sem_state' = "open"
                /\ sem' = SemInitValue
                /\ port' = start_port
                /\ pc' = "for"
                /\ UNCHANGED exit_status
           ELSE /\ pc' = "exited"
                /\ exit_status' = "EXIT_FAILURE"
                /\ UNCHANGED <<sem_state, sem, port>>
    /\ UNCHANGED <<cfg, ns, i, task, launch, dposts, wpc, pvars, wposts>>

(* Line 169: the loop test of the dispatch loop. *)
ForTest ==
    /\ pc = "for"
    /\ exit_status = "running"
    /\ IF port <= end_port
         THEN pc' = "sem_wait" /\ UNCHANGED i
         ELSE pc' = "drain" /\ i' = 0
    /\ UNCHANGED <<cfg, ns, port, exit_status, sem_state, sem, task, launch,
                   dposts, wpc, pvars, wposts>>

(* Variant of SemWait that goes on without taking a permit. *)
SemWait_NoAcquire ==
    /\ pc = "sem_wait"
    /\ exit_status = "running"
    /\ pc' = "malloc"
    /\ UNCHANGED <<cfg, ns, port, i, exit_status, sem_state, sem, task, launch,
                   dposts, wpc, pvars, wposts>>

(* Line 170: sem_wait blocks until the value is positive, then takes one. *)
SemWait ==
    /\ pc = "sem_wait"
    /\ exit_status = "running"
    /\ sem > 0
    /\ sem' = sem - 1
    /\ pc' = "malloc"
    /\ UNCHANGED <<cfg, ns, port, i, exit_status, sem_state, task, launch,
                   dposts, wpc, pvars, wposts>>

(* Lines 172-182, malloc succeeds: the task is filled in. *)
MallocOk ==
    /\ pc = "malloc"
    /\ exit_status = "running"
    /\ task' = [task EXCEPT ![port] = "allocated"]
    /\ pc' = "create"
    /\ UNCHANGED <<cfg, ns, port, i, exit_status, sem_state, sem, launch,
                   dposts, wpc, pvars, wposts>>

(* Variant of MallocFail that continues without sem_post. *)
MallocFail_NoPost ==
    /\ pc = "malloc"
    /\ exit_status = "running"
    /\ perr' = [perr EXCEPT ![port] = Append(@, "malloc")]
    /\ launch' = [launch EXCEPT ![port] = "malloc_failed"]
    /\ port' = port + 1
    /\ pc' = "for"
    /\ UNCHANGED <<cfg, ns, i, exit_status, sem_state, sem, dposts, task, wpc,
                   fd, closes, path, result, lines, wposts>>

(* Lines 173-177, malloc fails: perror, sem_post, continue. *)
MallocFail ==
    /\ pc = "malloc"
    /\ exit_status = "running"
    /\ perr' = [perr EXCEPT ![port] = Append(@, "malloc")]
    /\ sem' = sem + 1
    /\ dposts' = [dposts EXCEPT ![port] = @ + 1]
    /\ launch' = [launch EXCEPT ![port] = "malloc_failed"]
    /\ port' = port + 1
    /\ pc' = "for"
    /\ UNCHANGED <<cfg, ns, i, exit_status, sem_state, task, wpc,
                   fd, closes, path, result, lines, wposts>>

(* Variant of CreateOk whose loop advances by two ports. *)
CreateOk_Skip ==
    /\ pc = "create"
    /\ exit_status = "running"
    /\ wpc' = [wpc EXCEPT ![port] = "socket"]
    /\ launch' = [launch EXCEPT ![port] = "ok"]
    /\ port' = port + 2
    /\ pc' = "for"
    /\ UNCHANGED <<cfg, ns, i, exit_status, sem_state, sem, task, dposts,
                   pvars, wposts>>

(* Lines 184, 188-190: pthread_create succeeds, the thread is detached and *)
(* starts in worker (line 96).                                             *)
CreateOk ==
    /\ pc = "create"
    /\ exit_status = "running"
    /\ wpc' = [wpc EXCEPT ![port] = "socket"]
    /\ launch' = [launch EXCEPT ![port] = "ok"]
    /\ port' = port + 1
    /\ pc' = "for"
    /\ UNCHANGED <<cfg, ns, i, exit_status, sem_state, sem, task, dposts,
                   pvars, wposts>>

(* Variant of CreateFail that frees the task without sem_post. *)
CreateFail_NoPost ==
    /\ pc = "create"
    /\ exit_status = "running"
    /\ perr' = [perr EXCEPT ![port] = Append(@, "pthread_create")]
    /\ task' = [task EXCEPT ![port] = "freed"]
    /\ launch' = [launch EXCEPT ![port] = "create_failed"]
    /\ port' = port + 1
    /\ pc' = "for"
    /\ UNCHANGED <<cfg, ns, i, exit_status, sem_state, sem, dposts, wpc,
                   fd, closes, path, result, lines, wposts>>

(* Lines 184-187: pthread_create fails: perror, sem_post, free(task). *)
CreateFail ==
    /\ pc = "create"
    /\ exit_status = "running"
    /\ perr' = [perr EXCEPT ![port] = Append(@, "pthread_create")]
    /\ sem' = sem + 1
    /\ dposts' = [dposts EXCEPT ![port] = @ + 1]
    /\ task' = [task EXCEPT ![port] = "freed"]
    /\ launch' = [launch EXCEPT ![port] = "create_failed"]
    /\ port' = port + 1
    /\ pc' = "for"
    /\ UNCHANGED <<cfg, ns, i, exit_status, sem_state, wpc,
                   fd, closes, path, result, lines, wposts>>

(* Lines 194-196: one iteration of the drain loop: sem_wait. *)
DrainWait ==
    /\ pc = "drain"
    /\ exit_status = "running"
    /\ i < concurrency
    /\ sem > 0
    /\ sem' = sem - 1
    /\ i' = i + 1
    /\ UNCHANGED <<cfg, ns, pc, port, exit_status, sem_state, task, launch,
                   dposts, wpc, pvars, wposts>>

(* Variant of DrainExit whose loop runs one iteration short. *)
DrainExit_Early ==
    /\ pc = "drain"
    /\ exit_status = "running"
    /\ ~(i < concurrency - 1)
    /\ pc' = "sem_close"
    /\ UNCHANGED <<cfg, ns, port, i, exit_status, sem_state, sem, task, launch,
                   dposts, wpc, pvars, wposts>>

(* Line 194: the drain loop ends after concurrency iterations. *)
DrainExit ==
    /\ pc = "drain"
    /\ exit_status = "running"
    /\ ~(i < concurrency)
    /\ pc' = "sem_close"
    /\ UNCHANGED <<cfg, ns, port, i, exit_status, sem_state, sem, task, launch,
                   dposts, wpc, pvars, wposts>>

(* Lines 198-199: sem_close and sem_unlink. *)
SemClose ==
    /\ pc = "sem_close"
    /\ exit_status = "running"
    /\ sem_state' = "closed"
    /\ pc' = "return"
    /\ UNCHANGED <<cfg, ns, port, i, exit_status, sem, task, launch,
                   dposts, wpc, pvars, wposts>>

(* Line 201: main returns 0; the process ends and with it every thread. *)
MainReturn ==
    /\ pc = "return"
    /\ exit_status = "running"
    /\ exit_status' = "EXIT_SUCCESS"
    /\ pc' = "exited"
    /\ UNCHANGED <<cfg, ns, port, i, sem_state, sem, task, launch,
                   dposts, wpc, pvars, wposts>>

(* ======================= worker / scan_port ============================ *)

(* Variant of ScanSocket whose failure path ends the worker without        *)
(* sem_post.                                                               *)
ScanSocket_NoRelease(p) ==
    /\ wpc[p] = "socket"
    /\ exit_status = "running"
    /\ \E ok \in BOOLEAN :
         IF ok
           THEN /\ fd' = [fd EXCEPT ![p] = "open"]
                /\ wpc' = [wpc EXCEPT ![p] = "connect"]
                /\ UNCHANGED <<path, result, perr>>
           ELSE /\ perr' = [perr EXCEPT ![p] =
                               IF verbose = 1 THEN Append(@, "socket") ELSE @]
                /\ path' = [path EXCEPT ![p] = "socket_fail"]
                /\ result' = [result EXCEPT ![p] = Append(@, 0)]
                /\ wpc' = [wpc EXCEPT ![p] = "free"]
                /\ UNCHANGED fd
    /\ UNCHANGED <<cfg, ns, mvars, closes, lines, wposts>>

(* Variant of ScanSocket that ends the process when socket() fails. *)
ScanSocket_Exit(p) ==
    /\ wpc[p] = "socket"
    /\ exit_status = "running"
    /\ \E ok \in BOOLEAN :
         IF ok
           THEN /\ fd' = [fd EXCEPT ![p] = "open"]
                /\ wpc' = [wpc EXCEPT ![p] = "connect"]
                /\ UNCHANGED <<path, result, perr, pc, exit_status>>
           ELSE /\ perr' = [perr EXCEPT ![p] =
                               IF verbose = 1 THEN Append(@, "socket") ELSE @]
                /\ path' = [path EXCEPT ![p] = "socket_fail"]
                /\ pc' = "exited"
                /\ exit_status' = "EXIT_FAILURE"
                /\ UNCHANGED <<fd, result, wpc>>
    /\ UNCHANGED <<cfg, ns, port, i, sem_state, sem, task, launch, dposts,
                   closes, lines, wposts>>

(* Lines 96-97 and 46-58: the worker calls scan_port, which creates the    *)
(* socket.  On failure scan_port prints perror when verbose and returns 0. *)
ScanSocket(p) ==
    /\ wpc[p] = "socket"
    /\ exit_status = "running"
    /\ \E ok \in BOOLEAN :
         IF ok
           THEN /\ fd' = [fd EXCEPT ![p] = "open"]
                /\ wpc' = [wpc EXCEPT ![p] = "connect"]
                /\ UNCHANGED <<path, result, perr>>
           ELSE /\ perr' = [perr EXCEPT ![p] =
                               IF verbose = 1 THEN Append(@, "socket") ELSE @]
                /\ path' = [path EXCEPT ![p] = "socket_fail"]
                /\ result' = [result EXCEPT ![p] = Append(@, 0)]
                /\ wpc' = [wpc EXCEPT ![p] = "post"]
                /\ UNCHANGED fd
    /\ UNCHANGED <<cfg, ns, mvars, closes, lines, wposts>>

(* Lines 60-62: the non-blocking connect returns 0, fails with EINPROGRESS *)
(* or fails with another errno.                                            *)
ScanConnect(p) ==
    /\ wpc[p] = "connect"
    /\ exit_status = "running"
    /\ \E r \in {"connected", "EINPROGRESS", "error"} :
         CASE r = "connected" ->
                /\ path' = [path EXCEPT ![p] = "immediate"]
                /\ wpc' = [wpc EXCEPT ![p] = "close"]
           [] r = "EINPROGRESS" ->
                /\ wpc' = [wpc EXCEPT ![p] = "select"]
                /\ UNCHANGED path
           [] r = "error" ->
                /\ path' = [path EXCEPT ![p] = "connect_err"]
                /\ wpc' = [wpc EXCEPT ![p] = "close"]
    /\ UNCHANGED <<cfg, ns, mvars, fd, closes, result, lines, perr, wposts>>

(* Line 68: what select can return for tv = {timeout_sec, 0}: a negative   *)
(* tv_sec is rejected (EINVAL); otherwise the socket gets ready, the time  *)
(* runs out, or the wait fails.                                            *)
SelectOutcomes ==
    IF timeout_sec < 0 THEN {"fail"} ELSE {"ready", "timeout", "fail"}

(* Lines 63-69: select returns. *)
ScanSelect(p) ==
    /\ wpc[p] = "select"
    /\ exit_status = "running"
    /\ \E r \in SelectOutcomes :
         CASE r = "ready" ->
                /\ wpc' = [wpc EXCEPT ![p] = "getsockopt"]
                /\ UNCHANGED path
           [] r = "timeout" ->
                /\ path' = [path EXCEPT ![p] = "timeout"]
                /\ wpc' = [wpc EXCEPT ![p] = "close"]
           [] r = "fail" ->
                /\ path' = [path EXCEPT ![p] = "select_fail"]
                /\ wpc' = [wpc EXCEPT ![p] = "close"]
    /\ UNCHANGED <<cfg, ns, mvars, fd, closes, result, lines, perr, wposts>>

(* Lines 70-72: getsockopt(SO_ERROR) yields 0 or a pending error. *)
ScanGetsockopt(p) ==
    /\ wpc[p] = "getsockopt"
    /\ exit_status = "running"
    /\ \E error \in {0, 1} :
         path' = [path EXCEPT ![p] = IF error = 0 THEN "ready_ok"
                                                   ELSE "ready_err"]
    /\ wpc' = [wpc EXCEPT ![p] = "close"]
    /\ UNCHANGED <<cfg, ns, mvars, fd, closes, result, lines, perr, wposts>>

(* Variant of ScanClose that forgets the close when select failed. *)
ScanClose_Leak(p) ==
    /\ wpc[p] = "close"
    /\ exit_status = "running"
    /\ IF path[p] = "select_fail"
         THEN UNCHANGED <<fd, closes>>
         ELSE /\ fd' = [fd EXCEPT ![p] = "closed"]
              /\ closes' = [closes EXCEPT ![p] = @ + 1]
    /\ wpc' = [wpc EXCEPT ![p] = "ret"]
    /\ UNCHANGED <<cfg, ns, mvars, path, result, lines, perr, wposts>>

(* Lines 73, 79 and 83: the close(sockfd) of the branch taken. *)
ScanClose(p) ==
    /\ wpc[p] = "close"
    /\ exit_status = "running"
    /\ fd' = [fd EXCEPT ![p] = "closed"]
    /\ closes' = [closes EXCEPT ![p] = @ + 1]
    /\ wpc' = [wpc EXCEPT ![p] = "ret"]
    /\ UNCHANGED <<cfg, ns, mvars, path, result, lines, perr, wposts>>

(* Variant of ReturnsOpen that takes any readiness for success, without    *)
(* looking at the pending error.                                           *)
ReturnsOpen_AnyReady(pth) == pth \in {"immediate", "ready_ok", "ready_err"}

(* The branches of scan_port that end in return 1 (lines 75 and 85). *)
ReturnsOpen(pth) == pth \in {"immediate", "ready_ok"}

(* Variant of ScanReturn with a status line of its own for the timeout. *)
ScanReturn_TimeoutLine(p) ==
    /\ wpc[p] = "ret"
    /\ exit_status = "running"
    /\ lines' = [lines EXCEPT ![p] =
                   IF verbose = 1
                     THEN Append(@, IF ReturnsOpen(path[p]) THEN "open"
                                    ELSE IF path[p] = "timeout" THEN "timeout"
                                    ELSE "closed or timeout")
                     ELSE @]
    /\ result' = [result EXCEPT ![p] =
                   Append(@, IF ReturnsOpen(path[p]) THEN 1 ELSE 0)]
    /\ wpc' = [wpc EXCEPT ![p] = "post"]
    /\ UNCHANGED <<cfg, ns, mvars, fd, closes, path, perr, wposts>>

(* Variant of ScanReturn that prints the status line without looking at    *)
(* verbose.                                                                *)
ScanReturn_AlwaysPrint(p) ==
    /\ wpc[p] = "ret"
    /\ exit_status = "running"
    /\ lines' = [lines EXCEPT ![p] =
                   Append(@, IF ReturnsOpen(path[p])
                               THEN "open" ELSE "closed or timeout")]
    /\ result' = [result EXCEPT ![p] =
                   Append(@, IF ReturnsOpen(path[p]) THEN 1 ELSE 0)]
    /\ wpc' = [wpc EXCEPT ![p] = "post"]
    /\ UNCHANGED <<cfg, ns, mvars, fd, closes, path, perr, wposts>>

(* Lines 74-75, 80-81 and 84-85: the status line when verbose, and the     *)
(* return value.                                                           *)
ScanReturn(p) ==
    /\ wpc[p] = "ret"
    /\ exit_status = "running"
    /\ lines' = [lines EXCEPT ![p] =
                   IF verbose = 1
                     THEN Append(@, IF ReturnsOpen(path[p])
                                      THEN "open" ELSE "closed or timeout")
                     ELSE @]
    /\ result' = [result EXCEPT ![p] =
                   Append(@, IF ReturnsOpen(path[p]) THEN 1 ELSE 0)]
    /\ wpc' = [wpc EXCEPT ![p] = "post"]
    /\ UNCHANGED <<cfg, ns, mvars, fd, closes, path, perr, wposts>>

(* Variant of WorkerPost that releases two permits. *)
WorkerPost_Twice(p) ==
    /\ wpc[p] = "post"
    /\ exit_status = "running"
    /\ sem' = sem + 2
    /\ wposts' = [wposts EXCEPT ![p] = @ + 1]
    /\ wpc' = [wpc EXCEPT ![p] = "free"]
    /\ UNCHANGED <<cfg, ns, pc, port, i, exit_status, sem_state, task, launch,
                   dposts, pvars>>

(* Line 98: sem_post(semaphore). *)
WorkerPost(p) ==
    /\ wpc[p] = "post"
    /\ exit_status = "running"
    /\ sem' = sem + 1
    /\ wposts' = [wposts EXCEPT ![p] = @ + 1]
    /\ wpc' = [wpc EXCEPT ![p] = "free"]
    /\ UNCHANGED <<cfg, ns, pc, port, i, exit_status, sem_state, task, launch,
                   dposts, pvars>>

(* Lines 99-100: free(task); return NULL. *)
WorkerFree(p) ==
    /\ wpc[p] = "free"
    /\ exit_status = "running"
    /\ task' = [task EXCEPT ![p] = "freed"]
    /\ wpc' = [wpc EXCEPT ![p] = "done"]
    /\ UNCHANGED <<cfg, ns, pc, port, i, exit_status, sem_state, sem, launch,
                   dposts, pvars, wposts>>

(* ======================= the system ==================================== *)

Main ==
    \/ CheckRange
    \/ SemOpen
    \/ ForTest
    \/ SemWait
    \/ MallocOk
    \/ MallocFail
    \/ CreateOk
    \/ CreateFail
    \/ DrainWait
    \/ DrainExit
    \/ SemClose
    \/ MainReturn

Worker(p) ==
    \/ ScanSocket(p)
    \/ ScanConnect(p)
    \/ ScanSelect(p)
    \/ ScanGetsockopt(p)
    \/ ScanClose(p)
    \/ ScanReturn(p)
    \/ WorkerPost(p)
    \/ WorkerFree(p)

Next == Main \/ \E p \in DOMAIN wpc : Worker(p)

Spec == Init /\ [][Next]_vars

(* The valid configurations: the range passes line 155, the timeout and    *)
(* the concurrency are positive.                                           *)
FairInit ==
    /\ Init
    /\ 1 <= start_port /\ start_port <= end_port /\ end_port <= PORT_MAX
    /\ timeout_sec >= 1
    /\ concurrency >= 1

(* A scan of a valid configuration in which some runnable thread is        *)
(* always eventually scheduled.                                            *)
FairSpec == FairInit /\ [][Next]_vars /\ WF_vars(Next)

TypeOK ==
    /\ pc \in {"check_range", "sem_open", "for", "sem_wait", "malloc",
               "create", "drain", "sem_close", "return", "exited"}
    /\ exit_status \in {"running", "EXIT_SUCCESS", "EXIT_FAILURE"}
    /\ sem_state \in {"none", "open", "closed"}
    /\ sem \in Nat
    /\ \A p \in Range :
         /\ wpc[p] \in {"none", "socket", "connect", "select", "getsockopt",
                        "close", "ret", "post", "free", "done"}
         /\ fd[p] \in {"none", "open", "closed"}
         /\ result[p] \in {<< >>, <<0>>, <<1>>}

(* ======================= two processes, one semaphore name ============= *)
(* Two scanner processes run main on the same host.  Of each process the   *)
(* model keeps the calls on the named semaphore: sem_unlink and sem_open   *)
(* (lines 161-166), the sem_wait and sem_post calls of the scan, sem_close *)
(* and sem_unlink (lines 198-199).                                         *)

scan == <<cfg, mvars, wpc, pvars, wposts>>

(* Both processes start before their first sem_unlink, with a valid        *)
(* configuration; the name may still be bound to a semaphore an earlier    *)
(* run left behind.                                                        *)
NameInit ==
    /\ start_port = 1 /\ end_port = 1 /\ timeout_sec = 1 /\ verbose = 0
    /\ concurrency \in 1 .. MaxConc
    /\ pc = "check_range" /\ port = 0 /\ i = 0
    /\ exit_status = "running" /\ sem_state = "none" /\ sem = 0
    /\ task   = [p \in Range |-> "none"]
    /\ launch = [p \in Range |-> "none"]
    /\ dposts = [p \in Range |-> 0]
    /\ wpc    = [p \in Range |-> "none"]
    /\ fd     = [p \in Range |-> "none"]
    /\ closes = [p \in Range |-> 0]
    /\ path   = [p \in Range |-> "none"]
    /\ result = [p \in Range |-> << >>]
    /\ lines  = [p \in Range |-> << >>]
    /\ perr   = [p \in Range |-> << >>]
    /\ wposts = [p \in Range |-> 0]
    /\ ns_name \in {"none", "stale"}
    /\ ns_pc = [q \in Procs |-> "unlink"]
    /\ ns_handle = [q \in Procs |-> "none"]
    /\ ns_value = [o \in Objects |-> 0]
    /\ ns_held = [q \in Procs |-> 0]
    /\ ns_users = [o \in Objects |-> {}]
    /\ ns_status = [q \in Procs |-> "running"]

(* Line 161: sem_unlink(SEM_NAME) removes the name, whatever object it is  *)
(* bound to; processes that have the object open keep it.                  *)
NsUnlink(q) ==
    /\ ns_pc[q] = "unlink"
    /\ ns_name' = "none"
    /\ ns_pc' = [ns_pc EXCEPT ![q] = "open"]
    /\ UNCHANGED <<scan, ns_handle, ns_value, ns_held, ns_users, ns_status>>

(* Variant of NsOpen without O_EXCL: an existing semaphore is opened. *)
NsOpen_NoExcl(q) ==
    /\ ns_pc[q] = "open"
    /\ IF ns_name = "none"
         THEN /\ ns_name' = q
              /\ ns_value' = [ns_value EXCEPT ![q] = concurrency]
              /\ ns_handle' = [ns_handle EXCEPT ![q] = q]
         ELSE /\ ns_handle' = [ns_handle EXCEPT ![q] = ns_name]
              /\ UNCHANGED <<ns_name, ns_value>>
    /\ ns_pc' = [ns_pc EXCEPT ![q] = "scan"]
    /\ UNCHANGED <<scan, ns_held, ns_users, ns_status>>

(* Lines 162-166: sem_open(SEM_NAME, O_CREAT | O_EXCL, 0644, concurrency)  *)
(* creates a new semaphore when the name is free and fails (EEXIST) when   *)
(* it is bound; on failure the process exits with EXIT_FAILURE.            *)
NsOpen(q) ==
    /\ ns_pc[q] = "open"
    /\ IF ns_name = "none"
         THEN /\ ns_name' = q
              /\ ns_value' = [ns_value EXCEPT ![q] = concurrency]
              /\ ns_handle' = [ns_handle EXCEPT ![q] = q]
              /\ ns_pc' = [ns_pc EXCEPT ![q] = "scan"]
              /\ UNCHANGED ns_status
         ELSE /\ ns_pc' = [ns_pc EXCEPT ![q] = "exited"]
              /\ ns_status' = [ns_status EXCEPT ![q] = "EXIT_FAILURE"]
              /\ UNCHANGED <<ns_name, ns_value, ns_handle>>
    /\ UNCHANGED <<scan, ns_held, ns_users>>

(* Lines 170 and 195: a sem_wait of process q on its semaphore. *)
NsAcquire(q) ==
    /\ ns_pc[q] = "scan"
    /\ ns_value[ns_handle[q]] > 0
    /\ ns_value' = [ns_value EXCEPT ![ns_handle[q]] = @ - 1]
    /\ ns_held' = [ns_held EXCEPT ![q] = @ + 1]
    /\ ns_users' = [ns_users EXCEPT ![ns_handle[q]] = @ \cup {q}]
    /\ UNCHANGED <<scan, ns_name, ns_pc, ns_handle, ns_status>>

(* Lines 98, 175 and 186: a sem_post of process q (by a worker, or by main *)
(* after a failed launch) for a permit the process took.                   *)
NsRelease(q) ==
    /\ ns_pc[q] = "scan"
    /\ ns_held[q] > 0
    /\ ns_value' = [ns_value EXCEPT ![ns_handle[q]] = @ + 1]
    /\ ns_held' = [ns_held EXCEPT ![q] = @ - 1]
    /\ ns_users' = [ns_users EXCEPT ![ns_handle[q]] = @ \cup {q}]
    /\ UNCHANGED <<scan, ns_name, ns_pc, ns_handle, ns_status>>

(* Lines 194-198: the drain loop has taken concurrency permits; sem_close. *)
NsClose(q) ==
    /\ ns_pc[q] = "scan"
    /\ ns_held[q] = concurrency
    /\ ns_handle' = [ns_handle EXCEPT ![q] = "none"]
    /\ ns_pc' = [ns_pc EXCEPT ![q] = "unlink_end"]
    /\ UNCHANGED <<scan, ns_name, ns_value, ns_held, ns_users, ns_status>>

(* Lines 199-201: sem_unlink(SEM_NAME) and return 0. *)
NsUnlinkEnd(q) ==
    /\ ns_pc[q] = "unlink_end"
    /\ ns_name' = "none"
    /\ ns_pc' = [ns_pc EXCEPT ![q] = "exited"]
    /\ ns_status' = [ns_status EXCEPT ![q] = "EXIT_SUCCESS"]
    /\ UNCHANGED <<scan, ns_handle, ns_value, ns_held, ns_users>>

NameNext ==
    \E q \in Procs :
        \/ NsUnlink(q)
        \/ NsOpen(q)
        \/ NsAcquire(q)
        \/ NsRelease(q)
        \/ NsClose(q)
        \/ NsUnlinkEnd(q)

NameSpec == NameInit /\ [][NameNext]_vars

(* ======================= properties ==================================== *)

(* Slots in use: the permits taken from the semaphore and not returned. *)
SlotsInUse == concurrency - sem

(* The probes inside scan_port between connect (EINPROGRESS) and the       *)
(* return of select.                                                       *)
InSelect == {p \in DOMAIN wpc : wpc[p] = "select"}

(* main is past the drain loop of lines 194-196. *)
DrainPassed == pc \in {"sem_close", "return"} \/ exit_status = "EXIT_SUCCESS"

(* C1: with a concurrency limit c >= 1, from the creation of the semaphore *)
(* on, the number of slots in use stays within 0 .. c: the semaphore value *)
(* never exceeds c and never goes below 0.                                 *)
C1_SlotsWithinLimit ==
    (concurrency >= 1 /\ sem_state # "none") =>
        /\ SlotsInUse >= 0
        /\ SlotsInUse <= concurrency
        /\ sem <= concurrency

(* C1 witness: every slot is in use after a worker has already returned    *)
(* its permit and main has taken it again for a later port.                *)
C1_Witness ==
    /\ concurrency >= 1
    /\ sem_state = "open"
    /\ SlotsInUse = concurrency
    /\ i = 0
    /\ \E p \in DOMAIN wposts : wposts[p] = 1

(* C2: while the semaphore is open, the number of probes waiting in select *)
(* is at most the configured concurrency.                                  *)
C2_SelectBounded ==
    sem_state = "open" => Cardinality(InSelect) <= concurrency

(* C2 witness: as many probes wait in select as the concurrency allows,    *)
(* while main is blocked in sem_wait for a further port.                   *)
C2_Witness ==
    /\ concurrency >= 1
    /\ Cardinality(InSelect) = concurrency
    /\ pc = "sem_wait"
    /\ sem = 0

(* C3 (as claimed): for a valid configuration, once main is past the drain *)
(* loop, scan_port has produced exactly one result for every port of the   *)
(* range.  The code skips a port whose malloc or pthread_create fails.     *)
C3_OneResultPerPort ==
    (DrainPassed /\ concurrency >= 1) =>
        \A p \in Range : Len(result[p]) = 1

(* C4: once main is past the drain loop, every probe it launched has       *)
(* returned from scan_port, has given back its slot, and has no open       *)
(* socket; all concurrency permits are in main's hands.                    *)
C4_DrainBarrier ==
    DrainPassed =>
        /\ \A p \in Range :
             launch[p] = "ok" =>
               /\ wpc[p] \in {"free", "done"}
               /\ Len(result[p]) = 1
               /\ wposts[p] = 1
        /\ \A q \in Range : fd[q] # "open"
        /\ i = concurrency
        /\ sem = 0

(* C4 witness: main is past the drain loop after a probe that opened and   *)
(* closed a socket, while a worker is still between sem_post and free.     *)
C4_Witness ==
    /\ DrainPassed
    /\ \E p \in Range : fd[p] = "closed" /\ wpc[p] = "free"
    /\ \E p \in Range : fd[p] = "closed" /\ wpc[p] = "done"

(* C5: for a valid configuration and with some runnable thread always      *)
(* being scheduled, main never blocks forever: a sem_wait of the dispatch  *)
(* loop is eventually satisfied, a sem_wait of the drain loop is           *)
(* eventually satisfied, and once the scan has started main eventually     *)
(* returns 0.                                                              *)
C5_DispatcherTerminates ==
    /\ (pc = "sem_wait" /\ concurrency >= 1) ~> (pc = "malloc")
    /\ (pc = "drain" /\ concurrency >= 1) ~> (pc = "sem_close")
    /\ (pc = "for" /\ concurrency >= 1) ~> (exit_status = "EXIT_SUCCESS")

(* C5 witness: main is blocked in the sem_wait of the dispatch loop, all   *)
(* permits being held by running probes.                                   *)
C5_Witness ==
    /\ concurrency >= 1
    /\ pc = "sem_wait"
    /\ sem = 0
    /\ \A p \in Range : wposts[p] = 0 /\ dposts[p] = 0

(* The worker of port p has returned from scan_port (line 97 is done). *)
ScanReturned(p) == wpc[p] \in {"post", "free", "done"}

(* The worker of port p is past its sem_post (line 98 is done). *)
Released(p) == wpc[p] \in {"free", "done"}

(* C6: a worker performs no sem_post before scan_port has returned and     *)
(* exactly one once it is past line 98, whatever branch scan_port took:    *)
(* no worker ends without a sem_post and none posts twice.                 *)
C6_ReleaseExactlyOnce ==
    \A p \in Range :
        /\ wposts[p] <= 1
        /\ Released(p) => wposts[p] = 1
        /\ ~Released(p) => wposts[p] = 0
        /\ wposts[p] = 1 => Len(result[p]) = 1

(* C6 witness: one worker has ended after socket() failed and another      *)
(* after select failed, each with its single sem_post.                     *)
C6_Witness ==
    \E p, q \in Range :
        /\ path[p] = "socket_fail" /\ wpc[p] = "done" /\ wposts[p] = 1
        /\ path[q] = "select_fail" /\ wpc[q] = "done" /\ wposts[q] = 1

(* C7: a socket that scan_port created is open until the close of the      *)
(* branch taken and is closed exactly once when scan_port has returned;    *)
(* nothing is closed when socket() failed.                                 *)
C7_SocketClosedOnce ==
    \A p \in Range :
        /\ closes[p] <= 1
        /\ fd[p] = "none" => closes[p] = 0
        /\ wpc[p] \in {"connect", "select", "getsockopt", "close"} =>
               fd[p] = "open" /\ closes[p] = 0
        /\ (ScanReturned(p) /\ path[p] # "socket_fail") =>
               fd[p] = "closed" /\ closes[p] = 1
        /\ (ScanReturned(p) /\ path[p] = "socket_fail") => fd[p] = "none"

(* C7 witness: scan_port has returned with its socket closed once, on the  *)
(* path where select failed and on the path where connect failed with an   *)
(* error other than EINPROGRESS.                                           *)
C7_Witness ==
    \E p, q \in Range :
        /\ path[p] = "select_fail" /\ ScanReturned(p) /\ closes[p] = 1
        /\ path[q] = "connect_err" /\ ScanReturned(q) /\ closes[q] = 1

(* The launch of the probe for port p failed (lines 173-177, 184-187). *)
LaunchFailed(p) == launch[p] \in {"malloc_failed", "create_failed"}

(* The permits out of the semaphore: one per launched probe that has not   *)
(* posted, one while main is between sem_wait and the hand-over or         *)
(* give-back, and the permits the drain loop has taken.                    *)
PermitsHeld ==
    Cardinality({p \in Range : launch[p] = "ok" /\ wposts[p] = 0})
      + (IF pc \in {"malloc", "create"} THEN 1 ELSE 0)
      + i

(* C8: a failed launch gives its permit back exactly once (by main, never  *)
(* by a worker), the slot count stays exact (semaphore value plus permits  *)
(* held equals the concurrency), main goes on to the ports after the       *)
(* failure, and when the scan completes every port of the range was        *)
(* attempted and every port whose own launch succeeded was probed once.    *)
C8_LaunchFailureIsolated ==
    /\ \A p \in Range :
         /\ LaunchFailed(p) =>
              /\ dposts[p] = 1
              /\ wposts[p] = 0
              /\ wpc[p] = "none"
              /\ port > p
         /\ ~LaunchFailed(p) => dposts[p] = 0
    /\ sem_state # "none" => sem + PermitsHeld = concurrency
    /\ DrainPassed =>
         \A p \in Range :
             /\ launch[p] # "none"
             /\ launch[p] = "ok" => Len(result[p]) = 1

(* C8 witness: the scan completed after pthread_create failed for the      *)
(* first port; the port after it was launched and probed.                  *)
C8_Witness ==
    /\ DrainPassed
    /\ start_port < end_port
    /\ launch[start_port] = "create_failed"
    /\ launch[end_port] = "ok"
    /\ Len(result[end_port]) = 1

(* C9 (as claimed): a port whose launch failed still has a result.  In the *)
(* code such a port gets no result at all: only perror is printed.         *)
C9_LaunchFailureReported ==
    \A p \in Range : LaunchFailed(p) => Len(result[p]) = 1

(* C10: with start > end, start < 1 or end > 65535, as soon as the range   *)
(* check has run the process has exited with EXIT_FAILURE, and no          *)
(* semaphore was created, no task allocated, no thread started, no socket  *)
(* opened and no port probed.                                              *)
C10_InvalidRangeRejected ==
    ((start_port > end_port \/ start_port < 1 \/ end_port > 65535)
       /\ pc # "check_range") =>
        /\ pc = "exited"
        /\ exit_status = "EXIT_FAILURE"
        /\ sem_state = "none"
        /\ \A p \in Range :
             /\ wpc[p] = "none"
             /\ launch[p] = "none"
             /\ task[p] = "none"
             /\ fd[p] = "none"
             /\ result[p] = << >>

(* C10 witness: the process has exited with failure on a range whose end   *)
(* is above 65535 although start <= end and start >= 1.                    *)
C10_Witness ==
    /\ exit_status = "EXIT_FAILURE"
    /\ start_port >= 1
    /\ start_port <= end_port
    /\ end_port > 65535

(* A worker for port p was started (pthread_create succeeded). *)
Probed(p) == wpc[p] # "none"

(* C11 (as claimed): no probe ever runs with a timeout of zero or less.    *)
(* main never checks timeout_sec, so the probes run with whatever -t gave. *)
C11_TimeoutRejected ==
    \A p \in Range : Probed(p) => timeout_sec >= 1

(* C12 (as claimed): with a concurrency of zero or less, once main is past *)
(* sem_open the process has exited with EXIT_FAILURE.  With concurrency 0  *)
(* sem_open succeeds and main enters the dispatch loop, where its first    *)
(* sem_wait can never be satisfied.                                        *)
C12_ConcurrencyRejected ==
    (concurrency <= 0 /\ pc \notin {"check_range", "sem_open"}) =>
        exit_status = "EXIT_FAILURE"

(* C13: when scan_port has returned, it returned 1 (open) exactly when the *)
(* connection was established: connect returned 0, or connect was in       *)
(* progress, select reported readiness and SO_ERROR was 0.  On every other *)
(* branch (refusal, timeout, failed wait, failed connect, failed socket)   *)
(* it returned 0.                                                          *)
C13_OpenIffConnected ==
    \A p \in Range :
        ScanReturned(p) =>
            /\ result[p] \in {<<0>>, <<1>>}
            /\ result[p] = <<1>> <=> path[p] \in {"immediate", "ready_ok"}
            /\ path[p] \in {"ready_err", "timeout", "select_fail",
                            "connect_err", "socket_fail"} => result[p] = <<0>>

(* C13 witness: one probe saw readiness with SO_ERROR = 0 and returned 1,  *)
(* another saw readiness with a pending error and returned 0.              *)
C13_Witness ==
    \E p, q \in Range :
        /\ path[p] = "ready_ok" /\ result[p] = <<1>>
        /\ path[q] = "ready_err" /\ result[q] = <<0>>

(* What the program reports for port p: the value scan_port returned, the  *)
(* kind of status line on stdout, and the perror messages.                 *)
Report(p) == <<result[p], lines[p], perr[p]>>

(* The status line of lines 80-81, printed only when verbose. *)
ClosedLine == IF verbose = 1 THEN <<"closed or timeout">> ELSE << >>

(* C14 (as claimed): a probe that timed out and a probe that saw readiness *)
(* with a pending error never have the same report.                        *)
C14_TimeoutDistinct ==
    \A p, q \in Range :
        (ScanReturned(p) /\ path[p] = "timeout"
           /\ ScanReturned(q) /\ path[q] = "ready_err") =>
            Report(p) # Report(q)

(* C14 (amended): a probe that timed out returns 0 and, when verbose,      *)
(* prints the line "closed or timeout": the same return value and the same *)
(* line as a probe that saw readiness with a pending error.                *)
C14_TimeoutAsClosed ==
    \A p \in Range :
        (ScanReturned(p) /\ path[p] \in {"timeout", "ready_err"}) =>
            /\ result[p] = <<0>>
            /\ lines[p] = ClosedLine
            /\ perr[p] = << >>

(* C14 witness: with verbose on, one probe has timed out and another has   *)
(* seen a pending error; both have returned.                               *)
C14_Witness ==
    /\ verbose = 1
    /\ \E p, q \in Range :
         /\ ScanReturned(p) /\ path[p] = "timeout"
         /\ ScanReturned(q) /\ path[q] = "ready_err"

(* C15 (as claimed): a probe that failed internally (socket or select      *)
(* failed) has a report different from that of a closed or timed-out port. *)
C15_ErrorDistinct ==
    \A p, q \in Range :
        (ScanReturned(p) /\ path[p] \in {"socket_fail", "select_fail"}
           /\ ScanReturned(q) /\ path[q] \in {"ready_err", "timeout"}) =>
            Report(p) # Report(q)

(* C15 (amended): when select fails, scan_port returns 0 and reports the   *)
(* port as a closed one (line "closed or timeout" when verbose, no cause); *)
(* when socket fails, it returns 0 and prints perror("socket") instead of  *)
(* a status line when verbose.  The failure stays local: the process never *)
(* exits with failure once the scan has started, and when the scan         *)
(* completes every port of the range was attempted.                        *)
C15_ErrorAsClosedAndLocal ==
    /\ \A p \in Range :
         /\ (ScanReturned(p) /\ path[p] = "select_fail") =>
               /\ result[p] = <<0>>
               /\ lines[p] = ClosedLine
               /\ perr[p] = << >>
         /\ (ScanReturned(p) /\ path[p] = "socket_fail") =>
               /\ result[p] = <<0>>
               /\ lines[p] = << >>
               /\ perr[p] = IF verbose = 1 THEN <<"socket">> ELSE << >>
    /\ sem_state # "none" => exit_status # "EXIT_FAILURE"
    /\ (pc = "exited" /\ sem_state # "none") =>
         \A p \in Range : launch[p] # "none"

(* C15 witness: the scan has completed after socket() failed for the first *)
(* port and select failed for the one after it.                            *)
C15_Witness ==
    /\ exit_status = "EXIT_SUCCESS"
    /\ start_port < end_port
    /\ path[start_port] = "socket_fail"
    /\ path[end_port] = "select_fail"

(* C16 (as claimed): with verbose off no status line is printed; with      *)
(* verbose on every probe that has returned from scan_port printed exactly *)
(* one status line.                                                        *)
C16_OneLinePerProbe ==
    \A p \in Range :
        /\ verbose = 0 => lines[p] = << >>
        /\ (verbose = 1 /\ ScanReturned(p)) => Len(lines[p]) = 1

(* C16 (amended): with verbose off no status line is printed; with verbose *)
(* on every probe whose socket was created prints exactly one status line  *)
(* before scan_port returns ("open" when it returns 1, "closed or timeout" *)
(* when it returns 0), and a probe whose socket() failed prints no status  *)
(* line, only perror("socket").                                            *)
C16_OneLinePerCreatedSocket ==
    \A p \in Range :
        /\ verbose = 0 => lines[p] = << >>
        /\ ~ScanReturned(p) => lines[p] = << >>
        /\ (verbose = 1 /\ ScanReturned(p) /\ path[p] # "socket_fail") =>
               lines[p] = IF result[p] = <<1>> THEN <<"open">>
                                               ELSE <<"closed or timeout">>
        /\ (ScanReturned(p) /\ path[p] = "socket_fail") => lines[p] = << >>

(* C16 witness: with verbose on, a probe whose socket() failed has         *)
(* returned without a status line and another has printed its line.        *)
C16_Witness ==
    /\ verbose = 1
    /\ \E p, q \in Range :
         /\ ScanReturned(p) /\ path[p] = "socket_fail" /\ perr[p] = <<"socket">>
         /\ ScanReturned(q) /\ Len(lines[q]) = 1

(* The worker of port p is inside scan_port (line 97). *)
InScan(p) ==
    wpc[p] \in {"socket", "connect", "select", "getsockopt", "close", "ret"}

(* C17: main attempts the ports in ascending order without a gap: once the *)
(* dispatch loop has started, the ports already attempted are exactly the  *)
(* ports below the loop variable, so the probe of port p is launched       *)
(* before that of port p + 1.                                              *)
C17_AscendingDispatch ==
    sem_state # "none" =>
        /\ start_port <= port
        /\ port <= end_port + 1
        /\ \A p \in Range : launch[p] # "none" <=> p < port
        /\ \A p \in Range : Probed(p) => launch[p] = "ok"

(* C17 witness: with a concurrency of at least 2, the probe of port p + 1  *)
(* was launched and runs while the probe of port p is still inside         *)
(* scan_port, past its connect.                                            *)
C17_Witness ==
    /\ concurrency >= 2
    /\ \E p \in Range :
         /\ p + 1 \in Range
         /\ wpc[p] = "select"
         /\ InScan(p + 1)

(* C18 (as claimed): when main has returned, every worker it created has   *)
(* run to its end, free(task) and return included.  The drain loop only    *)
(* waits for the sem_post of each worker, so main can return while a       *)
(* worker is between line 98 and line 100.                                 *)
C18_WorkersDoneAtExit ==
    exit_status = "EXIT_SUCCESS" =>
        \A p \in Range : launch[p] = "ok" => wpc[p] = "done"

(* C19: in every interleaving of two scanner processes, a process that is  *)
(* past sem_open either holds the semaphore object it created itself or    *)
(* has exited with EXIT_FAILURE without any semaphore; the two processes   *)
(* never have the same object open; and every semaphore object is taken    *)
(* from and posted to by its creator only, so a permit released in one     *)
(* process is never acquired by the other.                                 *)
C19_NoSharedSlotPool ==
    /\ \A q \in Procs :
         /\ ns_handle[q] \in {"none", q}
         /\ ns_pc[q] = "scan" => ns_handle[q] = q
         /\ ns_status[q] = "EXIT_FAILURE" =>
               /\ ns_handle[q] = "none"
               /\ ns_held[q] = 0
               /\ ns_users[q] = {}
         /\ ns_users[q] \subseteq {q}
         /\ ns_pc[q] = "scan" => ns_value[q] + ns_held[q] = concurrency
    /\ ns_users["stale"] = {}
    /\ \A q, r \in Procs :
         (q # r /\ ns_handle[q] # "none") => ns_handle[q] # ns_handle[r]

(* C19 witness: both processes scan at the same time, each holding a       *)
(* permit of its own semaphore; the name is bound to the semaphore of p2   *)
(* because p2 ran sem_unlink and sem_open after p1 had opened its own.     *)
C19_Witness ==
    /\ ns_pc["p1"] = "scan" /\ ns_held["p1"] > 0
    /\ ns_pc["p2"] = "scan" /\ ns_held["p2"] > 0
    /\ ns_name = "p2"
    /\ ns_handle["p1"] = "p1"

====
